---- MODULE Spec2Model ----
(***************************************************************************)
(* Model of src/single_generator.py: the signal rule, the data validator,  *)
(* the series loader with its retry wrapper, the run statistics and the    *)
(* main workflow that chains them.                                         *)
(*                                                                         *)
(* Encoding of pandas values.  A float cell is an integer or NaN.  A row   *)
(* or a column is a function from the keys whose cell is not NaN to the    *)
(* integers, so pd.isna(row[k]) is "k is not in DOMAIN row" and every      *)
(* comparison with NaN is FALSE, as in pandas.  A Series is a record       *)
(* [idx, val]: idx the set of dates of its index, val the non-NaN cells.   *)
(* Optional Python objects (None or an object) are sets of at most one     *)
(* element.                                                                *)
(***************************************************************************)
EXTENDS Integers, Sequences, FiniteSets, TLC

VARIABLES
    generator,   \* the SignalGenerator instance: {} before construction, {cfg} after
    sg_row,      \* the row last handed to generate_signal ({} if none yet)
    sg_label,    \* the label generate_signal returned for sg_row ({} if none yet)
    rn_labels,   \* the df["signal"] column handed to _print_signal_stats
    rn_stats,    \* what _print_signal_stats computed ({} before the call)
    vd_df,       \* the frame handed to _validate_data
    vd_in,       \* that frame as it was when the call was made
    vd_result,   \* what _validate_data did ({} before the call)
    pc,          \* main: the step it is at
    key_i,       \* main: position in data_sources of the dataset being loaded
    file_i,      \* main: position in config["files"] of the candidate being loaded
    attempt,     \* retry_on_error.wrapper: the loop variable of the current call
    file_kind,   \* RAW_DIR: what each file turned out to be ("unknown" until looked at)
    file_data,   \* RAW_DIR: the series each file read so far holds ({} until read)
    tried,       \* the files _load_series has been called on
    series_dict, \* main: key -> loaded Series
    df,          \* main: the merged frame
    signal,      \* main: df["signal"], aligned with df.index ({} before labelling)
    findings,    \* the warnings _validate_data logged in main
    stats,       \* what _print_signal_stats computed in main ({} before)
    out_file,    \* PROCESSED_DIR/signals.csv: {} until written
    error,       \* the exception main re-raised ({} if none)
    stages,      \* the steps of main completed so far, in order
    rt_max,      \* retry_on_error: the max_retries the decorator was given
    rt_attempt,  \* wrapper: the loop variable attempt
    rt_log,      \* the outcomes of the calls of func the wrapper made, in order
    rt_result    \* what the wrapper did: {} while it runs, then what it returned or raised

sgVars == <<sg_row, sg_label>>
rnVars == <<rn_labels, rn_stats>>
vdVars == <<vd_df, vd_in, vd_result>>
loadVars == <<key_i, file_i, attempt, file_kind, file_data, tried, series_dict>>
mainVars == <<pc, loadVars, df, signal, findings, stats, out_file, error, stages>>
rtVars == <<rt_max, rt_attempt, rt_log, rt_result>>
vars == <<generator, sgVars, rnVars, vdVars, mainVars, rtVars>>

----------------------------------------------------------------------------
(* Signal rules: class SignalGenerator                                     *)

\* default arguments of SignalGenerator.__init__
buy_fg_threshold_default == 20
buy_vix_threshold_default == 30
sell_fg_threshold_default == 80
sell_vix_threshold_default == 15

Columns == {"spy_price", "vix", "cnn_fg"}

\* SignalGenerator.__init__: stores the four arguments, checks nothing
SignalGeneratorInit(bf, bv, sf, sv) ==
    [buy_fg_threshold |-> bf, buy_vix_threshold |-> bv,
     sell_fg_threshold |-> sf, sell_vix_threshold |-> sv]

DefaultGenerator ==
    SignalGeneratorInit(buy_fg_threshold_default, buy_vix_threshold_default,
                        sell_fg_threshold_default, sell_vix_threshold_default)

\* pd.isna(row[k])
isna(row, k) == k \notin DOMAIN row

\* a variant that tests the buy rule with strict bounds
generate_signal_strict(self, row) ==
    IF isna(row, "cnn_fg") \/ isna(row, "vix") THEN "HOLD"
    ELSE IF row["cnn_fg"] < self.buy_fg_threshold /\ row["vix"] > self.buy_vix_threshold
         THEN "BUY"
    ELSE IF row["cnn_fg"] >= self.sell_fg_threshold /\ row["vix"] <= self.sell_vix_threshold
         THEN "SELL"
    ELSE "HOLD"

\* SignalGenerator.generate_signal
generate_signal(self, row) ==
    IF isna(row, "cnn_fg") \/ isna(row, "vix") THEN "HOLD"
    ELSE IF row["cnn_fg"] <= self.buy_fg_threshold /\ row["vix"] >= self.buy_vix_threshold
         THEN "BUY"
    ELSE IF row["cnn_fg"] >= self.sell_fg_threshold /\ row["vix"] <= self.sell_vix_threshold
         THEN "SELL"
    ELSE "HOLD"

----------------------------------------------------------------------------
(* Frames.  df.index is the ascending sequence of dates (main sorts it);   *)
(* df.cols[k] holds the non-NaN cells of column k.  A date is its day      *)
(* number, so a difference of dates is a number of days.                   *)

EmptyFrame == [index |-> <<>>, cols |-> [k \in Columns |-> <<>>]]

Range(s) == {s[i] : i \in DOMAIN s}

\* the elements of a set of dates in ascending order
RECURSIVE SortedSeq(_)
SortedSeq(S) ==
    IF S = {} THEN <<>>
    ELSE LET m == CHOOSE x \in S : \A y \in S : x <= y
         IN  <<m>> \o SortedSeq(S \ {m})

\* the row of df at date d, as df.apply(axis=1) hands it to the function
RowAt(frame, d) ==
    [k \in {c \in Columns : d \in DOMAIN frame.cols[c]} |-> frame.cols[k][d]]

----------------------------------------------------------------------------
(* Data validation: _validate_data                                         *)

MaxGapDays == 5

\* df.isnull().sum(): the number of NaN cells of each column
isnull_sum(frame) ==
    [k \in Columns |-> Cardinality({d \in Range(frame.index) : d \notin DOMAIN frame.cols[k]})]

\* (df[k] < 0).any() and (df[k] > hi).any(); a NaN cell compares FALSE
any_below(frame, k, lo) == \E d \in DOMAIN frame.cols[k] : frame.cols[k][d] < lo
any_above(frame, k, hi) == \E d \in DOMAIN frame.cols[k] : frame.cols[k][d] > hi

\* df.index.to_series().diff(): the differences of consecutive index entries
\* (its first entry is NaT and is skipped by max())
date_diff(frame) == {frame.index[i] - frame.index[i - 1] : i \in 2 .. Len(frame.index)}

\* date_diff.max().days > 5; on fewer than two rows max() is NaT, NaT.days is
\* NaN and the comparison is FALSE
gap_too_large(frame) == \E g \in date_diff(frame) : g > MaxGapDays

\* a variant that lets negative volatility pass
validate_data_no_vix_check(frame) ==
    LET missing == {k \in Columns : isnull_sum(frame)[k] > 0}
        w1 == IF missing # {} THEN {"missing"} ELSE {}
    IN  IF any_below(frame, "cnn_fg", 0) \/ any_above(frame, "cnn_fg", 100)
        THEN [warnings |-> w1, missing |-> missing,
              raised |-> {"Invalid CNN Fear & Greed data"}]
        ELSE [warnings |-> w1 \cup (IF gap_too_large(frame) THEN {"gap"} ELSE {}),
              missing |-> missing, raised |-> {}]

\* a variant that lets out-of-range fear/greed values pass
validate_data_no_fg_check(frame) ==
    LET missing == {k \in Columns : isnull_sum(frame)[k] > 0}
        w1 == IF missing # {} THEN {"missing"} ELSE {}
    IN  IF any_below(frame, "vix", 0)
        THEN [warnings |-> w1, missing |-> missing, raised |-> {"Invalid VIX data"}]
        ELSE [warnings |-> w1 \cup (IF gap_too_large(frame) THEN {"gap"} ELSE {}),
              missing |-> missing, raised |-> {}]

\* _validate_data: the warnings it logs, the columns it reports as having
\* missing values, and the ValueError it raises ({} when it returns)
validate_data(frame) ==
    LET missing == {k \in Columns : isnull_sum(frame)[k] > 0}
        w1 == IF missing # {} THEN {"missing"} ELSE {}
    IN  IF any_below(frame, "vix", 0)
        THEN [warnings |-> w1, missing |-> missing, raised |-> {"Invalid VIX data"}]
        ELSE IF any_below(frame, "cnn_fg", 0) \/ any_above(frame, "cnn_fg", 100)
        THEN [warnings |-> w1, missing |-> missing,
              raised |-> {"Invalid CNN Fear & Greed data"}]
        ELSE [warnings |-> w1 \cup (IF gap_too_large(frame) THEN {"gap"} ELSE {}),
              missing |-> missing, raised |-> {}]

----------------------------------------------------------------------------
(* Statistics: _print_signal_stats                                         *)

Labels == {"BUY", "SELL", "HOLD"}

RECURSIVE SeqSum(_)
SeqSum(s) == IF s = <<>> THEN 0 ELSE s[1] + SeqSum(Tail(s))

\* the for loop over df["signal"], from position i on; what it returns is
\* hold_periods when the loop ends
RECURSIVE hold_loop(_, _, _, _)
hold_loop(signals, i, hold_periods, current_period) ==
    IF i > Len(signals) THEN hold_periods
    ELSE IF signals[i] = "HOLD"
         THEN hold_loop(signals, i + 1, hold_periods, current_period + 1)
    ELSE hold_loop(signals, i + 1,
                   IF current_period > 0
                   THEN Append(hold_periods, current_period) ELSE hold_periods,
                   0)

\* _print_signal_stats: value_counts(), hold_periods and, when hold_periods
\* is not empty, avg_hold = sum(hold_periods) / len(hold_periods), kept as
\* the pair of its numerator and denominator
print_signal_stats(signals) ==
    LET hold_periods == hold_loop(signals, 1, <<>>, 0)
    IN  [signal_counts |->
             [l \in Range(signals) |-> Cardinality({i \in DOMAIN signals : signals[i] = l})],
         hold_periods |-> hold_periods,
         avg_hold |-> IF hold_periods # <<>>
                      THEN {[sum |-> SeqSum(hold_periods), len |-> Len(hold_periods)]}
                      ELSE {}]

----------------------------------------------------------------------------
(* Data loading: retry_on_error and _load_series                           *)

\* @retry_on_error(max_retries=3, delay=1) on _load_series
max_retries == 3

\* what a file of RAW_DIR can be: absent, not readable as CSV, a CSV with
\* more than one data column, a CSV with exactly one data column
FileKinds == {"missing", "unparsable", "multicol", "valid"}

\* One execution of the body of _load_series on a file of the given kind.
\* lock1 and lock2 tell whether the first and the second pd.read_csv find
\* the file locked (PermissionError); the second read happens only after
\* the first was locked.  The result is "ok" or the exception raised.
load_series_body(kind, lock1, lock2) ==
    IF kind = "missing" THEN "FileNotFoundError"
    ELSE IF lock1 /\ lock2 THEN "PermissionError"
    ELSE IF kind = "unparsable" THEN "ParserError"
    ELSE IF kind = "multicol" THEN "ValueError"
    ELSE "ok"

\* series = df.iloc[:, 0].copy(); series.name = value_col or series.name
load_series_result(content, value_col) ==
    [name |-> value_col, idx |-> content.idx, val |-> content.val]

\* wrapper of retry_on_error, after the call of the current attempt raised:
\* TRUE when it re-raises, FALSE when it sleeps and loops
\* a variant whose test is off by one
wrapper_last_attempt_off_by_one(att, n) == att = n

\* if attempt == max_retries - 1: raise
wrapper_last_attempt(att, n) == att = n - 1

wrapper_reraises(att) == wrapper_last_attempt(att, max_retries)

----------------------------------------------------------------------------
(* Main workflow: the configuration and the merge of main                  *)

\* data_sources, in insertion order; a dataset with "files" lists candidates
data_sources ==
    << [key |-> "spy", files |-> <<"spy.csv">>, multi |-> FALSE,
        col |-> "spy_price", required |-> TRUE],
       [key |-> "vix", files |-> <<"vix.csv">>, multi |-> FALSE,
        col |-> "vix", required |-> TRUE],
       [key |-> "cnn_fg",
        files |-> <<"fear_greed_historical.csv", "cnn_fear_greed_current.csv",
                    "cnn_fear_greed.csv">>,
        multi |-> TRUE, col |-> "cnn_fg", required |-> TRUE] >>

Files == UNION {Range(data_sources[i].files) : i \in DOMAIN data_sources}

\* the except clauses of the loading loop: except FileNotFoundError
caught_by_loop_any(exc) == TRUE

caught_by_loop(exc) == exc = "FileNotFoundError"

\* whether the loop over config["files"] stops once a candidate has loaded:
\* the break after series_dict[key] = _load_series(...)
breaks_after_load_never(c) == FALSE

breaks_after_load(c) == TRUE

\* series_dict.values(): the loaded series in insertion order
series_values(sd) ==
    LET present == SelectSeq(data_sources, LAMBDA c : c.key \in DOMAIN sd)
    IN  [i \in 1 .. Len(present) |-> sd[present[i].key]]

\* a variant that keeps the dates of the first series (a left join)
first_index(ss) == ss[1].idx

\* a variant that keeps every date of any series (join="outer")
RECURSIVE outer_index(_)
outer_index(ss) ==
    IF Len(ss) = 1 THEN ss[1].idx
    ELSE outer_index(SubSeq(ss, 1, Len(ss) - 1)) \cup ss[Len(ss)].idx

\* the index of pd.concat(..., join="inner"): the first index intersected
\* with each of the others in turn
RECURSIVE inner_index(_)
inner_index(ss) ==
    IF Len(ss) = 1 THEN ss[1].idx
    ELSE inner_index(SubSeq(ss, 1, Len(ss) - 1)) \cap ss[Len(ss)].idx

\* pd.concat(series, axis=1, join="inner").sort_index(): one column per
\* series, named after it, holding its cells at the dates of the index
concat_inner_sorted(ss) ==
    LET idx == inner_index(ss)
    IN  [index |-> SortedSeq(idx),
         cols |-> [k \in {ss[i].name : i \in DOMAIN ss} |->
                      LET s == ss[CHOOSE i \in DOMAIN ss : ss[i].name = k]
                      IN  [d \in idx \cap DOMAIN s.val |-> s.val[d]]]]

\* df.apply(generator.generate_signal, axis=1): one label per row, in index
\* order; on a frame without rows pandas returns an empty column
apply_generate_signal(self, frame) ==
    [i \in 1 .. Len(frame.index) |-> generate_signal(self, RowAt(frame, frame.index[i]))]

----------------------------------------------------------------------------
(* The signal rule on its own: construct a generator, classify rows.       *)

FgSamples == {0, 19, 20, 21, 50, 79, 80, 81, 100}
VixSamples == {14, 15, 16, 29, 30, 31}
SpySamples == {470, 480}
FgThresholds == {buy_fg_threshold_default, sell_fg_threshold_default}
VixThresholds == {buy_vix_threshold_default, sell_vix_threshold_default}

SampleOf(k) == IF k = "cnn_fg" THEN FgSamples
               ELSE IF k = "vix" THEN VixSamples ELSE SpySamples

\* every row over Columns whose cells are NaN or a sample
SampleRows == UNION {[S -> FgSamples \cup VixSamples \cup SpySamples] : S \in SUBSET Columns}
Rows == {r \in SampleRows : \A k \in DOMAIN r : r[k] \in SampleOf(k)}

RtIdle == rt_max = 0 /\ rt_attempt = 0 /\ rt_log = <<>> /\ rt_result = {}
SgIdle == sg_row = {} /\ sg_label = {}
RnIdle == rn_labels = <<>> /\ rn_stats = {}
VdIdle == vd_df = EmptyFrame /\ vd_in = EmptyFrame /\ vd_result = {}
MainIdle ==
    /\ pc = "idle"
    /\ key_i = 1 /\ file_i = 1 /\ attempt = 0
    /\ file_kind = [f \in Files |-> "unknown"]
    /\ file_data = [f \in Files |-> {}]
    /\ tried = {}
    /\ series_dict = <<>>
    /\ df = EmptyFrame
    /\ signal = {}
    /\ findings = {}
    /\ stats = {}
    /\ out_file = {}
    /\ error = {}
    /\ stages = <<>>

SgInit ==
    /\ generator = {}
    /\ RtIdle
    /\ SgIdle
    /\ RnIdle
    /\ VdIdle
    /\ MainIdle

\* generator = SignalGenerator(bf, bv, sf, sv)
Construct ==
    /\ generator = {}
    /\ \E bf \in FgThresholds, sf \in FgThresholds,
          bv \in VixThresholds, sv \in VixThresholds :
          generator' = {SignalGeneratorInit(bf, bv, sf, sv)}
    /\ UNCHANGED <<sgVars, rnVars, vdVars, mainVars, rtVars>>

\* label = generator.generate_signal(row)
Classify ==
    /\ generator # {}
    /\ \E self \in generator, row \in Rows :
          /\ sg_row' = {row}
          /\ sg_label' = {generate_signal(self, row)}
    /\ UNCHANGED <<generator, rnVars, vdVars, mainVars, rtVars>>

SgNext == Construct \/ Classify

SpecSignal == SgInit /\ [][SgNext]_vars

----------------------------------------------------------------------------
(* The run statistics on their own: any label column, one call.            *)

MaxLabels == 8

LabelColumns == UNION {[1 .. n -> Labels] : n \in 0 .. MaxLabels}

RnInit ==
    /\ generator = {}
    /\ RtIdle
    /\ SgIdle
    /\ VdIdle
    /\ MainIdle
    /\ rn_labels \in LabelColumns
    /\ rn_stats = {}

\* _print_signal_stats(df)
Analyze ==
    /\ rn_stats = {}
    /\ rn_stats' = {print_signal_stats(rn_labels)}
    /\ UNCHANGED <<generator, sgVars, vdVars, mainVars, rtVars, rn_labels>>

RnNext == Analyze

SpecRuns == RnInit /\ [][RnNext]_vars

----------------------------------------------------------------------------
(* The validator on its own: any merged frame, one call.                   *)

MaxFrameRows == 3

\* dates three days apart: neighbours are within MaxGapDays, others are not
FrameDates == {3 * i : i \in 1 .. MaxFrameRows}
VdVixSamples == {-1, 30}
VdFgSamples == {-1, 50, 101}

Column(D, V) == UNION {[S -> V] : S \in SUBSET D}

Frames ==
    UNION {{[index |-> SortedSeq(D),
             cols |-> [k \in Columns |->
                          IF k = "spy_price" THEN [d \in D |-> 470]
                          ELSE IF k = "vix" THEN v ELSE f]] :
            v \in Column(D, VdVixSamples), f \in Column(D, VdFgSamples)} :
           D \in SUBSET FrameDates}

VdInit ==
    /\ generator = {}
    /\ RtIdle
    /\ SgIdle
    /\ RnIdle
    /\ MainIdle
    /\ vd_df \in Frames
    /\ vd_in = vd_df
    /\ vd_result = {}

\* _validate_data(df)
Validate ==
    /\ vd_result = {}
    /\ vd_result' = {validate_data(vd_df)}
    /\ vd_df' = vd_df
    /\ UNCHANGED <<generator, sgVars, rnVars, mainVars, rtVars, vd_in>>

VdNext == Validate

SpecValidate == VdInit /\ [][VdNext]_vars

----------------------------------------------------------------------------
(* The retry decorator on its own: one call of a wrapped function, for any *)
(* max_retries and any behaviour of the function.                          *)

MaxRetries == 4

\* what a call of the wrapped function can do: return a value or raise
FuncReturns == {[kind |-> "returned", what |-> v] : v \in {"series", "path"}}
FuncRaises ==
    {[kind |-> "raised", what |-> e] :
        e \in {"FileNotFoundError", "PermissionError", "ValueError"}}

RtInit ==
    /\ generator = {}
    /\ SgIdle
    /\ RnIdle
    /\ VdIdle
    /\ MainIdle
    /\ rt_max \in 0 .. MaxRetries
    /\ rt_attempt = 0
    /\ rt_log = <<>>
    /\ rt_result = {}

\* the wrapper is in its for loop, about to run the iteration rt_attempt
InLoop == rt_result = {} /\ rt_attempt < rt_max

rtOthersIdle == UNCHANGED <<generator, sgVars, rnVars, vdVars, mainVars, rt_max>>

\* return func(*args, **kwargs): the call returns and so does the wrapper
RtCallReturns ==
    /\ InLoop
    /\ \E r \in FuncReturns :
          /\ rt_log' = Append(rt_log, r)
          /\ rt_result' = {r}
    /\ UNCHANGED rt_attempt
    /\ rtOthersIdle

\* the call raises on an attempt that is not the last: log, sleep, loop
RtCallRaisesRetry ==
    /\ InLoop
    /\ ~wrapper_last_attempt(rt_attempt, rt_max)
    /\ \E e \in FuncRaises : rt_log' = Append(rt_log, e)
    /\ rt_attempt' = rt_attempt + 1
    /\ UNCHANGED rt_result
    /\ rtOthersIdle

\* the call raises on the last attempt: raise
RtCallRaisesLast ==
    /\ InLoop
    /\ wrapper_last_attempt(rt_attempt, rt_max)
    /\ \E e \in FuncRaises :
          /\ rt_log' = Append(rt_log, e)
          /\ rt_result' = {e}
    /\ UNCHANGED rt_attempt
    /\ rtOthersIdle

\* the for loop ends without a return or a raise: return None
RtLoopEnds ==
    /\ rt_result = {}
    /\ rt_attempt >= rt_max
    /\ rt_result' = {[kind |-> "returned", what |-> "None"]}
    /\ UNCHANGED <<rt_attempt, rt_log>>
    /\ rtOthersIdle

RtNext == RtCallReturns \/ RtCallRaisesRetry \/ RtCallRaisesLast \/ RtLoopEnds

SpecRetry == RtInit /\ [][RtNext]_vars

----------------------------------------------------------------------------
(* The whole program: one run of main over any contents of RAW_DIR.        *)

MaxDate == 2

\* the dates a stored series can hold, three days apart
StoreDates == {3 * i : i \in 1 .. MaxDate}
StoreSpy == {470}
StoreVix == {-1, 10, 32}
StoreFg == {15, 85}

\* the series a valid file for a dataset can hold: any index over StoreDates;
\* price and volatility cells are numbers, a fear/greed cell may be empty
StoredSeries(c) ==
    IF c.key = "spy"
    THEN UNION {{[name |-> "SPY", idx |-> D, val |-> v] : v \in [D -> StoreSpy]} :
                D \in SUBSET StoreDates}
    ELSE IF c.key = "vix"
    THEN UNION {{[name |-> "VIX", idx |-> D, val |-> v] : v \in [D -> StoreVix]} :
                D \in SUBSET StoreDates}
    ELSE UNION {{[name |-> "CNN_FG", idx |-> D, val |-> v] : v \in Column(D, StoreFg)} :
                D \in SUBSET StoreDates}

MainInit ==
    /\ generator = {}
    /\ RtIdle
    /\ SgIdle
    /\ RnIdle
    /\ VdIdle
    /\ pc = "load"
    /\ key_i = 1 /\ file_i = 1 /\ attempt = 0
    /\ file_kind = [f \in Files |-> "unknown"]
    /\ file_data = [f \in Files |-> {}]
    /\ tried = {}
    /\ series_dict = <<>>
    /\ df = EmptyFrame
    /\ signal = {}
    /\ findings = {}
    /\ stats = {}
    /\ out_file = {}
    /\ error = {}
    /\ stages = <<>>

config == data_sources[key_i]
file == config.files[file_i]

\* what the file being loaded is: as seen before, or any kind on first look
KindsNow == IF file_kind[file] = "unknown" THEN FileKinds ELSE {file_kind[file]}
\* what the file being loaded holds: as read before, or any series on first read
DataNow == IF file_data[file] = {} THEN StoredSeries(config) ELSE file_data[file]

othersIdle == UNCHANGED <<generator, sgVars, rnVars, vdVars, rtVars>>
afterLoad == UNCHANGED <<df, signal, findings, stats, out_file>>

\* main's except clause: log, re-raise; the run ends with the exception
Abort(exc) ==
    /\ pc' = "failed"
    /\ error' = {exc}

\* an attempt of _load_series returns a series: series_dict[key] = series,
\* break out of the candidates, go on with the next dataset or the merge
LoadReturns ==
    /\ pc = "load"
    /\ \E kind \in KindsNow, lock1 \in BOOLEAN, lock2 \in BOOLEAN, content \in DataNow :
          /\ load_series_body(kind, lock1, lock2) = "ok"
          /\ file_kind' = [file_kind EXCEPT ![file] = kind]
          /\ file_data' = [file_data EXCEPT ![file] = {content}]
          /\ series_dict' =
                [k \in DOMAIN series_dict \cup {config.key} |->
                    IF k = config.key THEN load_series_result(content, config.col)
                    ELSE series_dict[k]]
    /\ tried' = tried \cup {file}
    /\ attempt' = 0
    /\ IF config.multi /\ file_i < Len(config.files) /\ ~breaks_after_load(config)
       THEN /\ file_i' = file_i + 1
            /\ UNCHANGED <<key_i, pc, stages>>
       ELSE /\ file_i' = 1
            /\ IF key_i < Len(data_sources)
               THEN /\ key_i' = key_i + 1
                    /\ pc' = "load"
                    /\ stages' = stages
               ELSE /\ key_i' = key_i
                    /\ pc' = "merge"
                    /\ stages' = Append(stages, "resolve")
    /\ UNCHANGED error
    /\ afterLoad
    /\ othersIdle

\* an attempt raises and the wrapper sleeps and tries again
LoadRetries ==
    /\ pc = "load"
    /\ \E kind \in KindsNow, lock1 \in BOOLEAN, lock2 \in BOOLEAN :
          /\ load_series_body(kind, lock1, lock2) # "ok"
          /\ file_kind' = [file_kind EXCEPT ![file] = kind]
    /\ ~wrapper_reraises(attempt)
    /\ attempt' = attempt + 1
    /\ tried' = tried \cup {file}
    /\ UNCHANGED <<pc, key_i, file_i, file_data, series_dict, error, stages>>
    /\ afterLoad
    /\ othersIdle

\* the last attempt raises FileNotFoundError on a candidate of a "files"
\* dataset that has further candidates: continue with the next one
LoadNextCandidate ==
    /\ pc = "load"
    /\ \E kind \in KindsNow, lock1 \in BOOLEAN, lock2 \in BOOLEAN :
          /\ load_series_body(kind, lock1, lock2) # "ok"
          /\ caught_by_loop(load_series_body(kind, lock1, lock2))
          /\ file_kind' = [file_kind EXCEPT ![file] = kind]
    /\ wrapper_reraises(attempt)
    /\ config.multi
    /\ file_i < Len(config.files)
    /\ file_i' = file_i + 1
    /\ attempt' = 0
    /\ tried' = tried \cup {file}
    /\ UNCHANGED <<pc, key_i, file_data, series_dict, error, stages>>
    /\ afterLoad
    /\ othersIdle

\* the last attempt raises FileNotFoundError and nothing is left to try: the
\* single file of a required dataset (the exception is re-raised), or the
\* last candidate of a required "files" dataset (main raises
\* FileNotFoundError for the key)
LoadMissing ==
    /\ pc = "load"
    /\ \E kind \in KindsNow, lock1 \in BOOLEAN, lock2 \in BOOLEAN :
          /\ load_series_body(kind, lock1, lock2) # "ok"
          /\ caught_by_loop(load_series_body(kind, lock1, lock2))
          /\ file_kind' = [file_kind EXCEPT ![file] = kind]
    /\ wrapper_reraises(attempt)
    /\ config.required
    /\ ~config.multi \/ file_i = Len(config.files)
    /\ Abort([type |-> "FileNotFoundError", at |-> "load", of |-> config.key])
    /\ tried' = tried \cup {file}
    /\ UNCHANGED <<key_i, file_i, attempt, file_data, series_dict, stages>>
    /\ afterLoad
    /\ othersIdle

\* the last attempt raises anything else: no except clause of the loading
\* loop catches it, main logs it and re-raises
LoadFails ==
    /\ pc = "load"
    /\ \E kind \in KindsNow, lock1 \in BOOLEAN, lock2 \in BOOLEAN :
          /\ load_series_body(kind, lock1, lock2) # "ok"
          /\ ~caught_by_loop(load_series_body(kind, lock1, lock2))
          /\ file_kind' = [file_kind EXCEPT ![file] = kind]
          /\ Abort([type |-> load_series_body(kind, lock1, lock2), at |-> "load",
                    of |-> config.key])
    /\ wrapper_reraises(attempt)
    /\ tried' = tried \cup {file}
    /\ UNCHANGED <<key_i, file_i, attempt, file_data, series_dict, stages>>
    /\ afterLoad
    /\ othersIdle

\* 3. df = pd.concat(series_dict.values(), axis=1, join="inner").sort_index()
Merge ==
    /\ pc = "merge"
    /\ df' = concat_inner_sorted(series_values(series_dict))
    /\ pc' = "validate"
    /\ stages' = Append(stages, "merge")
    /\ UNCHANGED <<loadVars, signal, findings, stats, out_file, error>>
    /\ othersIdle

\* 4. _validate_data(df) returns
ValidatePasses ==
    /\ pc = "validate"
    /\ validate_data(df).raised = {}
    /\ findings' = validate_data(df).warnings
    /\ pc' = "label"
    /\ stages' = Append(stages, "validate")
    /\ UNCHANGED <<loadVars, df, signal, stats, out_file, error>>
    /\ othersIdle

\* 4. _validate_data(df) raises ValueError
ValidateRaises ==
    /\ pc = "validate"
    /\ validate_data(df).raised # {}
    /\ findings' = validate_data(df).warnings
    /\ \E msg \in validate_data(df).raised :
          Abort([type |-> "ValueError", at |-> "validate", of |-> msg])
    /\ UNCHANGED <<loadVars, df, signal, stats, out_file, stages>>
    /\ othersIdle

\* 5. generator = SignalGenerator(); df["signal"] = df.apply(...)
Label ==
    /\ pc = "label"
    /\ generator' = {DefaultGenerator}
    /\ signal' = {apply_generate_signal(DefaultGenerator, df)}
    /\ pc' = "stats"
    /\ stages' = Append(stages, "label")
    /\ UNCHANGED <<loadVars, df, findings, stats, out_file, error>>
    /\ UNCHANGED <<sgVars, rnVars, vdVars, rtVars>>

\* 6. _print_signal_stats(df)
Stats ==
    /\ pc = "stats"
    /\ \E col \in signal : stats' = {print_signal_stats(col)}
    /\ pc' = "save"
    /\ stages' = Append(stages, "stats")
    /\ UNCHANGED <<loadVars, df, signal, findings, out_file, error>>
    /\ othersIdle

\* 7. df.to_csv(out_path, index_label="date"); main returns
Save ==
    /\ pc = "save"
    /\ \E col \in signal :
          out_file' = {[date |-> df.index, cols |-> df.cols, signal |-> col]}
    /\ pc' = "done"
    /\ stages' = Append(stages, "save")
    /\ UNCHANGED <<loadVars, df, signal, findings, stats, error>>
    /\ othersIdle

Next ==
    \/ LoadReturns \/ LoadRetries \/ LoadNextCandidate \/ LoadMissing \/ LoadFails
    \/ Merge \/ ValidatePasses \/ ValidateRaises \/ Label \/ Stats \/ Save

Spec == MainInit /\ [][Next]_vars

----------------------------------------------------------------------------
(* Properties of the signal rule (checked under SpecSignal)                *)

\* C1: with the default thresholds generate_signal returns the label of the
\* first-match rule: HOLD if cnn_fg or vix is missing, else BUY if
\* cnn_fg <= 20 and vix >= 30, else SELL if cnn_fg >= 80 and vix <= 15, else
\* HOLD; the bounds are inclusive (20, 30 is BUY; 21, 30 is HOLD) and the
\* label is the same for every row with the same cnn_fg and vix.
C1_FirstMatchRule ==
    \A self \in generator, row \in sg_row, label \in sg_label :
        self = DefaultGenerator =>
            /\ ("cnn_fg" \notin DOMAIN row \/ "vix" \notin DOMAIN row) => label = "HOLD"
            /\ ("cnn_fg" \in DOMAIN row /\ "vix" \in DOMAIN row) =>
                  /\ (row["cnn_fg"] <= 20 /\ row["vix"] >= 30) => label = "BUY"
                  /\ (~(row["cnn_fg"] <= 20 /\ row["vix"] >= 30)
                        /\ row["cnn_fg"] >= 80 /\ row["vix"] <= 15) => label = "SELL"
                  /\ (~(row["cnn_fg"] <= 20 /\ row["vix"] >= 30)
                        /\ ~(row["cnn_fg"] >= 80 /\ row["vix"] <= 15)) => label = "HOLD"
                  /\ (row["cnn_fg"] = 20 /\ row["vix"] = 30) => label = "BUY"
                  /\ (row["cnn_fg"] = 21 /\ row["vix"] = 30) => label = "HOLD"
            /\ \A other \in Rows :
                  (\A k \in {"cnn_fg", "vix"} :
                      /\ k \in DOMAIN other <=> k \in DOMAIN row
                      /\ k \in DOMAIN row => other[k] = row[k])
                  => generate_signal(self, other) = label

\* C1 witness: the default generator has labelled the boundary row 20, 30 BUY
C1_Witness ==
    /\ generator = {DefaultGenerator}
    /\ \E row \in sg_row :
          /\ "cnn_fg" \in DOMAIN row /\ "vix" \in DOMAIN row
          /\ row["cnn_fg"] = 20 /\ row["vix"] = 30
    /\ sg_label = {"BUY"}

ValidThresholds(self) ==
    /\ self.buy_fg_threshold < self.sell_fg_threshold
    /\ self.buy_vix_threshold > self.sell_vix_threshold

\* C10: a threshold configuration that violates buy-fear < sell-fear or
\* buy-volatility > sell-volatility is rejected at construction, so no
\* generator with such thresholds exists and no label comes from one.
C10_InvalidThresholdsRejected ==
    \A self \in generator : ValidThresholds(self)

----------------------------------------------------------------------------
(* Properties of the run statistics (checked under SpecRuns)               *)

HoldRunStarts(s) ==
    {i \in DOMAIN s : s[i] = "HOLD" /\ (i = 1 \/ s[i - 1] # "HOLD")}

HoldRunEnd(s, i) ==
    CHOOSE j \in i .. Len(s) :
        /\ \A k \in i .. j : s[k] = "HOLD"
        /\ j = Len(s) \/ s[j + 1] # "HOLD"

\* the lengths, in order, of the maximal contiguous runs of HOLD
MaximalHoldRuns(s) ==
    LET starts == SortedSeq(HoldRunStarts(s))
    IN  [n \in 1 .. Len(starts) |-> HoldRunEnd(s, starts[n]) - starts[n] + 1]

\* C7: the run lengths are the lengths, in order, of the maximal contiguous
\* runs of HOLD, a run ending at the last row included; no zero-length run
\* is recorded; the mean is their sum over their count; the labels
\* H H B H S H H H give run lengths 2, 1, 3 and mean 2.0.
C7_RunLengths ==
    \A r \in rn_stats :
        /\ r.hold_periods = MaximalHoldRuns(rn_labels)
        /\ \A i \in DOMAIN r.hold_periods : r.hold_periods[i] > 0
        /\ \A a \in r.avg_hold :
              a.sum = SeqSum(MaximalHoldRuns(rn_labels)) /\ a.len = Len(MaximalHoldRuns(rn_labels))
        /\ rn_labels = <<"HOLD", "HOLD", "BUY", "HOLD", "SELL", "HOLD", "HOLD", "HOLD">>
              => /\ r.hold_periods = <<2, 1, 3>>
                 /\ \A a \in r.avg_hold : a.sum = 2 * a.len

----------------------------------------------------------------------------
(* Properties of the validator (checked under SpecValidate)                *)

FatalRow(row) ==
    \/ "vix" \in DOMAIN row /\ row["vix"] < 0
    \/ "cnn_fg" \in DOMAIN row /\ (row["cnn_fg"] < 0 \/ row["cnn_fg"] > 100)

NullRow(row) == DOMAIN row # Columns

HasFatalRow(frame) == \E d \in Range(frame.index) : FatalRow(RowAt(frame, d))
HasNullRow(frame) == \E d \in Range(frame.index) : NullRow(RowAt(frame, d))
HasLargeGap(frame) ==
    \E i \in 2 .. Len(frame.index) : frame.index[i] - frame.index[i - 1] > 5

\* C4: _validate_data aborts with a validation error if and only if some
\* row has vix < 0 or cnn_fg < 0 or cnn_fg > 100; a row with a null field
\* and a date gap above 5 days are reported only and never abort; the frame
\* is left unchanged.
C4_ValidatorVerdict ==
    \A r \in vd_result :
        /\ r.raised # {} <=> HasFatalRow(vd_in)
        /\ HasNullRow(vd_in) <=> "missing" \in r.warnings
        /\ ~HasFatalRow(vd_in) => (HasLargeGap(vd_in) <=> "gap" \in r.warnings)
        /\ vd_df = vd_in

\* C4 witness: a frame with a null field and a gap above 5 days and no
\* fatal row has been validated: both are reported, nothing is raised
C4_Witness ==
    /\ HasNullRow(vd_in) /\ HasLargeGap(vd_in) /\ ~HasFatalRow(vd_in)
    /\ \E r \in vd_result : r.raised = {} /\ r.warnings = {"missing", "gap"}

----------------------------------------------------------------------------
(* Properties of the whole program (checked under Spec)                    *)

Done(stage) == stage \in Range(stages)

Perms(n) == {p \in [1 .. n -> 1 .. n] : \A i, j \in 1 .. n : p[i] = p[j] => i = j}

CommonDates(ss) ==
    {d \in UNION {ss[i].idx : i \in DOMAIN ss} : \A i \in DOMAIN ss : d \in ss[i].idx}

\* C2: the dates of the merged frame are exactly the dates present in every
\* series, and joining the series in any order gives the same dates.
C2_JoinIsIntersection ==
    Done("merge") =>
        LET ss == series_values(series_dict)
        IN  /\ Range(df.index) = CommonDates(ss)
            /\ \A p \in Perms(Len(ss)) :
                  Range(concat_inner_sorted([i \in DOMAIN ss |-> ss[p[i]]]).index)
                      = Range(df.index)

\* C2 witness: series with different date sets have been merged, a date of
\* one of them was dropped and a date survived
C2_Witness ==
    /\ Done("merge")
    /\ df.index # <<>>
    /\ \E k \in DOMAIN series_dict : series_dict[k].idx \ Range(df.index) # {}

\* C3 (as claimed): every date of the merged frame that reaches the Signal
\* Engine has a non-missing value for every required field.
C3_NoMissingValue ==
    Done("validate") =>
        \A d \in Range(df.index), k \in Columns : d \in DOMAIN df.cols[k]

\* C3 (amended): every date of the merged frame that reaches the Signal
\* Engine is a date of every loaded series, and its value for a field is
\* missing exactly when the stored value of that series for that date is
\* empty; otherwise it is the stored value.
C3_MissingOnlyWhereStoredEmpty ==
    Done("validate") =>
        \A d \in Range(df.index), i \in DOMAIN data_sources :
            LET s == series_dict[data_sources[i].key]
                column == df.cols[data_sources[i].col]
            IN  /\ d \in s.idx
                /\ d \in DOMAIN column <=> d \in DOMAIN s.val
                /\ d \in DOMAIN column => column[d] = s.val[d]

\* C3 witness: a frame with an empty fear/greed cell has passed validation
C3_Witness ==
    /\ Done("validate")
    /\ \E d \in Range(df.index) : d \notin DOMAIN df.cols["cnn_fg"]

Candidates(c) == Range(c.files)

\* the position of the candidate a loaded dataset was resolved to: the last
\* of its candidates that _load_series was called on
ResolvedAt(c) ==
    CHOOSE j \in DOMAIN c.files :
        c.files[j] \in tried /\ \A i \in DOMAIN c.files : c.files[i] \in tried => i <= j

\* C5: candidates are loaded in list order; a dataset resolves to the first
\* candidate whose load succeeds, renamed to the target column; once a
\* candidate has loaded no later candidate is loaded; candidates
\* [missing, present] resolve to the second one's series without raising.
C5_FirstLoadableCandidate ==
    \A n \in DOMAIN data_sources :
        LET c == data_sources[n]
        IN  /\ \A i, j \in DOMAIN c.files :
                  (i < j /\ c.files[j] \in tried) => c.files[i] \in tried
            /\ c.key \in DOMAIN series_dict =>
                  LET j == ResolvedAt(c)
                  IN  /\ \A i \in 1 .. j - 1 : file_data[c.files[i]] = {}
                      /\ \A i \in j + 1 .. Len(c.files) : c.files[i] \notin tried
                      /\ \E content \in file_data[c.files[j]] :
                            series_dict[c.key] =
                                [name |-> c.col, idx |-> content.idx, val |-> content.val]
            /\ (Len(c.files) >= 2 /\ file_kind[c.files[1]] = "missing"
                   /\ file_data[c.files[2]] # {}) =>
                  /\ c.key \in DOMAIN series_dict
                  /\ \E content \in file_data[c.files[2]] :
                        series_dict[c.key].idx = content.idx
                            /\ series_dict[c.key].val = content.val
                  /\ \A e \in error : e.at # "load"

\* C5 witness: the first fear/greed candidate was missing, the second one
\* has loaded and the third was never looked at
C5_Witness ==
    LET c == data_sources[3]
    IN  /\ c.key \in DOMAIN series_dict
        /\ file_kind[c.files[1]] = "missing"
        /\ file_data[c.files[2]] # {}
        /\ c.files[3] \notin tried
        /\ series_dict[c.key].name = "cnn_fg"

LoadError == {e \in error : e.at = "load"}

DatasetOf(key) == data_sources[CHOOSE n \in DOMAIN data_sources : data_sources[n].key = key]

StageOrder == <<"resolve", "merge", "validate", "label", "stats", "save">>

\* C8: the stages run in the order resolve, join, validate, label, run
\* statistics, write; a run with an unresolved required dataset or a fatal
\* validation finding ends with an error and never writes the output file;
\* a run with only non-fatal findings writes one labelled row per date
\* that survived the join and ends normally.
C8_StagesAndOutcome ==
    /\ Len(stages) <= Len(StageOrder)
    /\ stages = SubSeq(StageOrder, 1, Len(stages))
    /\ pc = "failed" <=> error # {}
    /\ error # {} => out_file = {}
    /\ (Done("merge") /\ HasFatalRow(df)) => out_file = {} /\ ~Done("validate")
    /\ (pc = "validate" /\ ~HasFatalRow(df)) => ENABLED ValidatePasses
    /\ (pc = "validate" /\ HasFatalRow(df)) => ENABLED ValidateRaises /\ ~ENABLED ValidatePasses
    /\ Done("validate") => pc \in {"label", "stats", "save", "done"}
    /\ pc = "label" => ENABLED Label
    /\ pc = "stats" => ENABLED Stats
    /\ pc = "save" => ENABLED Save
    /\ out_file # {} <=> pc = "done"
    /\ pc = "done" =>
          /\ stages = StageOrder
          /\ \A o \in out_file :
                /\ o.date = SortedSeq(CommonDates(series_values(series_dict)))
                /\ DOMAIN o.signal = DOMAIN o.date
                /\ \A i \in DOMAIN o.signal : o.signal[i] \in Labels

\* C8 witness: a run whose only finding was a missing value has written a
\* labelled row and ended normally
C8_Witness ==
    /\ pc = "done"
    /\ findings = {"missing"}
    /\ \E o \in out_file : Len(o.date) >= 1 /\ Len(o.signal) = Len(o.date)

\* C9: when the required series have no date in common the run does not
\* crash and ends with a distinct "empty merged frame" condition, different
\* from a normal run and from every other error.
C9_EmptyMergedFrameSurfaced ==
    (Done("merge") /\ df.index = <<>> /\ pc \in {"done", "failed"}) =>
        /\ pc # "done"
        /\ \E e \in error : e.type = "EmptyMergedFrame"

----------------------------------------------------------------------------
(* Properties of the retry decorator (checked under SpecRetry)             *)

\* C11: for max_attempts >= 1 the wrapped operation is invoked again after
\* each failure, at most max_attempts times in all; the wrapper returns the
\* result of the first successful invocation without invoking it again;
\* if all max_attempts invocations fail it raises the failure of the last.
C11_RetryUpToMaxAttempts ==
    rt_max >= 1 =>
        /\ Len(rt_log) <= rt_max
        /\ \A i \in 1 .. Len(rt_log) - 1 : rt_log[i] \in FuncRaises
        /\ (rt_result = {} /\ Len(rt_log) < rt_max) => ENABLED RtCallReturns
        /\ rt_result = {} => (rt_log = <<>> \/ rt_log[Len(rt_log)] \in FuncRaises)
        /\ rt_result = {} => Len(rt_log) < rt_max
        /\ \A r \in rt_result :
              /\ rt_log # <<>>
              /\ r = rt_log[Len(rt_log)]
              /\ r \in FuncRaises => Len(rt_log) = rt_max
              /\ ~ENABLED RtNext

\* C11 witness: with max_retries 3 the function failed three times, with a
\* different exception the last time, and the wrapper raised the last one
C11_Witness ==
    /\ rt_max = 3
    /\ Len(rt_log) = 3
    /\ rt_log[1].what = "PermissionError"
    /\ rt_log[3].what = "ValueError"
    /\ rt_result = {[kind |-> "raised", what |-> "ValueError"]}

====
